---------------------------- MODULE Spec2Model ----------------------------
(***************************************************************************)
(* A model of S3.py: the `upload` and `upload-dashboard` commands, the     *)
(* credential loader, the workbook expander, the two uploaders and the     *)
(* thread pool that fans plain files out.                                  *)
(*                                                                         *)
(* Strings are sequences of tokens.  A token is one character ("/", ".",   *)
(* " ", ...) or an opaque run of ordinary characters that the code never   *)
(* looks into ("delivery/dataset=", "Discover Atlanta KPI Dashboard").     *)
(* A Path is the sequence of its parts, each part a string.                *)
(***************************************************************************)
EXTENDS Integers, Sequences, FiniteSets, Bags, TLC

(***************************************************************************)
(* Bounds of the model.                                                    *)
(***************************************************************************)
MaxFiles == 2        \* files below the directory given to `upload`
MaxProcesses == 2    \* largest value given for --processes
MaxMidnights == 1    \* date changes of the wall clock during one run
MaxNameLen == 3      \* length of the sheet names given to the sanitiser

(***************************************************************************)
(* Module constants of S3.py.                                              *)
(***************************************************************************)
S3_BUCKET_NAME == "symphony-client-shared-atlanta-ga"
Dataset == {"winistry", "sparkloft"}

(***************************************************************************)
(* str and pathlib operations the script uses.                             *)
(***************************************************************************)
RECURSIVE lstrip(_, _)
\* str.lstrip(c) for a one-character argument: drop every leading c.
lstrip(s, c) ==
    IF s # <<>> /\ Head(s) = c THEN lstrip(Tail(s), c) ELSE s

RECURSIVE replace(_, _, _)
\* str.replace(old, new) for a one-character old.
replace(s, old, new) ==
    IF s = <<>> THEN <<>>
    ELSE <<IF Head(s) = old THEN new ELSE Head(s)>> \o replace(Tail(s), old, new)

LowerChar(c) ==
    CASE c = "X" -> "x"
      [] c = "L" -> "l"
      [] c = "S" -> "s"
      [] c = "B" -> "b"
      [] OTHER -> c

\* str.lower()
lower(s) == [i \in 1..Len(s) |-> LowerChar(s[i])]

\* str.rfind('.'), 1-based; 0 when there is none.
rfind_dot(s) ==
    LET at == {i \in 1..Len(s) : s[i] = "."}
    IN  IF at = {} THEN 0 ELSE CHOOSE i \in at : \A j \in at : j <= i

\* PurePath.name: the last part.
name(p) == p[Len(p)]

\* PurePath.suffix: from the last dot of the name, unless that dot is the
\* first or the last character of the name.
suffix(p) ==
    LET n == name(p)
        i == rfind_dot(n)
    IN  IF 1 < i /\ i < Len(n) THEN SubSeq(n, i, Len(n)) ELSE <<>>

\* PurePath.stem: the name without its suffix.
stem(p) ==
    LET n == name(p)
        i == rfind_dot(n)
    IN  IF 1 < i /\ i < Len(n) THEN SubSeq(n, 1, i - 1) ELSE n

RECURSIVE as_posix(_)
\* PurePath.as_posix(): the parts joined by "/".
as_posix(p) ==
    IF Len(p) = 1 THEN p[1]
    ELSE p[1] \o <<"/">> \o as_posix(Tail(p))


(***************************************************************************)
(* The inputs of a run: the command line, S3.ini and the files on disk.    *)
(***************************************************************************)
\* S3.ini as configparser sees it: whether the file exists, whether it
\* parses, whether it has an [AWS] section, and the options of that section.
KEY_ID == "AWS_ACCESS_KEY_ID"
SECRET == "AWS_SECRET_ACCESS_KEY"
GoodIni ==
    [exists |-> TRUE, parses |-> TRUE, has_aws |-> TRUE,
     opts |-> (KEY_ID :> "AKIA") @@ (SECRET :> "s3cr3t")]
ConfigFiles ==
    { GoodIni,
      [GoodIni EXCEPT !.exists = FALSE],
      [GoodIni EXCEPT !.parses = FALSE],
      [GoodIni EXCEPT !.has_aws = FALSE],
      [GoodIni EXCEPT !.opts = (SECRET :> "s3cr3t")],
      [GoodIni EXCEPT !.opts = (KEY_ID :> "AKIA")],
      [GoodIni EXCEPT !.opts = (KEY_ID :> "") @@ (SECRET :> "s3cr3t")],
      [GoodIni EXCEPT !.opts = (KEY_ID :> "AKIA") @@ (SECRET :> "")] }

\* Paths below the directory given to `upload`, relative to it.
PlainPaths ==
    { << <<"a">> >>,                    \* a
      << <<".", "a">> >>,               \* .a
      << <<".", ".", ".">>, <<"a">> >>  \* .../a
    }
WorkbookPaths ==
    { << <<"b", ".", "x", "l", "s", "x">> >>,      \* b.xlsx
      << <<"d">>, <<"B", ".", "X", "L", "S">> >>   \* d/B.XLS
    }
AllPaths == PlainPaths \cup WorkbookPaths

\* The sheet names of a workbook, in sheet order (a workbook holds the
\* first n of them), and what pandas makes of one sheet: a frame with rows,
\* an empty frame, or an exception while reading it.
SheetOrder == << <<"a", " ", "b">>, <<"a", "_", "b">> >>
Frames == {"rows", "empty", "error"}
SheetLists ==
    UNION { { [i \in 1..n |-> [sheet |-> SheetOrder[i], df |-> f[i]]] :
                f \in [1..n -> Frames] }
            : n \in 0..Len(SheetOrder) }
\* A workbook on disk: whether pd.ExcelFile opens it, and its sheets.
Workbooks ==
    { [opens |-> FALSE, sheets |-> <<>>] }
    \cup { [opens |-> TRUE, sheets |-> s] : s \in SheetLists }


\* The files below the directory given to `upload`, with what each workbook
\* among them holds.
Directories ==
    UNION { { [is_dir |-> TRUE, files |-> fs, content |-> c] :
                c \in [fs \cap WorkbookPaths -> Workbooks] }
            : fs \in {f \in SUBSET AllPaths : Cardinality(f) <= MaxFiles} }
\* A single file given to `upload`; its path relative to its parent is its
\* name.
SingleFiles ==
    UNION { { [is_dir |-> FALSE, files |-> {f}, content |-> c] :
                c \in [{f} \cap WorkbookPaths -> Workbooks] }
            : f \in {q \in AllPaths : Len(q) = 1} }

\* The two mappings of upload_dashboard.  The directory of both files is
\* one opaque token.
ACVB == <<"C:\\Users\\research\\...\\Documents - ACVB Research">>
file_mappings ==
    << [file_path |-> <<ACVB, <<"Discover Atlanta KPI Dashboard",
                               ".", "x", "l", "s", "x">> >>,
        dataset |-> "winistry",
        description |-> "Discover Atlanta KPI Dashboard"],
       [file_path |-> <<ACVB, <<"Discover Atlanta - Monthly Data Report",
                               ".", "x", "l", "s", "x">> >>,
        dataset |-> "sparkloft",
        description |-> "Discover Atlanta Monthly Data Report"] >>
MappingPaths == { file_mappings[i].file_path : i \in 1..Len(file_mappings) }
\* Which of the two dashboard files exist, and what they hold.
DashboardDisks ==
    UNION { { [is_dir |-> FALSE, files |-> fs, content |-> c] :
                c \in [fs -> Workbooks] }
            : fs \in SUBSET MappingPaths }

\* The dates the wall clock shows, one per midnight passed.
Dates == <<"2026-12-30", "2026-12-31", "2027-01-01", "2027-01-02">>
\* datetime.datetime.now().strftime('%Y-%m-%d')
strftime_now(clk) == Dates[clk + 1]


(***************************************************************************)
(* The state of a run.                                                     *)
(***************************************************************************)
VARIABLES
    args,          \* the command line: command, dataset, processes, dry_run
    disk,          \* S3.ini, and the files under the path of the run
    clock,         \* midnights passed since the run began
    pc,            \* where the main thread stands
    exit_code,     \* the exit status of the process, -1 while it runs
    s3_client,     \* whether boto3.client(...) has been constructed
    s3_path,       \* the key prefix in use
    excel_files,   \* upload: workbooks still to process
    regular_files, \* upload: the plain files found
    xl,            \* process_excel_file: its arguments and remaining sheets
    mapping_i,     \* upload_dashboard: index of the next mapping
    tasks,         \* the pool: argument tuples no worker has taken yet
    worker,        \* the pool: the state of each worker thread
    returned,      \* the pool: tasks whose call has returned
    calls,         \* bag of the put calls made on the store client
    store,         \* the bucket: objects by key
    log,           \* bag of the lines logged
    san            \* the sanitiser applied to one sheet name, twice

vars ==
    <<args, disk, clock, pc, exit_code, s3_client, s3_path, excel_files,
      regular_files, xl, mapping_i, tasks, worker, returned, calls, store,
      log, san>>

NoPath == <<>>
NoXl == [file_path |-> NoPath, sheets |-> <<>>, ret |-> ""]
SanOff == [stage |-> "off", sheet_name |-> <<>>, once |-> <<>>, twice |-> <<>>]
Idle == [state |-> "idle", file_path |-> NoPath, Key |-> <<>>]

\* A line of the log.
Line(level, event, file_path, sheet_name, key) ==
    [level |-> level, event |-> event, file_path |-> file_path,
     sheet_name |-> sheet_name, Key |-> key]
Logged(l, line) == l (+) SetToBag({line})

\* The bucket after a put of `body` under `key`.
Put(st, key, body) ==
    {o \in st : o.Key # key} \cup {[Key |-> key, body |-> body]}

(***************************************************************************)
(* get_s3_client                                                           *)
(***************************************************************************)
\* read_config without the test for empty values.
read_config_unchecked(ini) ==
    IF ~ini.exists THEN "config_not_found"
    ELSE IF ~ini.parses THEN "config_unexpected_error"
    ELSE IF ~ini.has_aws THEN "config_no_section"
    ELSE IF KEY_ID \notin DOMAIN ini.opts \/ SECRET \notin DOMAIN ini.opts
         THEN "config_no_option"
    ELSE "ok"

\* What get_s3_client does with S3.ini: the event it logs before
\* sys.exit(1), or "ok" when it goes on to build the client.
read_config(ini) ==
    IF ~ini.exists THEN "config_not_found"
    ELSE IF ~ini.parses THEN "config_unexpected_error"
    ELSE IF ~ini.has_aws THEN "config_no_section"
    ELSE IF KEY_ID \notin DOMAIN ini.opts \/ SECRET \notin DOMAIN ini.opts
         THEN "config_no_option"
    ELSE IF ini.opts[KEY_ID] = "" \/ ini.opts[SECRET] = ""
         THEN "config_incomplete"
    ELSE "ok"

GetS3Client ==
    /\ pc = "get_s3_client"
    /\ LET r == read_config(disk.config)
       IN  IF r = "ok"
           THEN /\ s3_client' = TRUE
                /\ log' = Logged(log, Line("INFO", "using_credentials",
                                          NoPath, <<>>, <<>>))
                /\ pc' = args.command
                /\ exit_code' = exit_code
           ELSE /\ s3_client' = s3_client
                /\ log' = Logged(log, Line("ERROR", r, NoPath, <<>>, <<>>))
                /\ pc' = "exited"
                /\ exit_code' = 1
    /\ UNCHANGED <<args, disk, clock, s3_path, excel_files, regular_files,
                   xl, mapping_i, tasks, worker, returned, calls, store, san>>

(***************************************************************************)
(* The path builder and the two uploaders.                                 *)
(***************************************************************************)
\* f"delivery/dataset={dataset}/status=staged/delivery-date={now:%Y-%m-%d}/"
build_s3_path(dataset, clk) ==
    <<"delivery/dataset=", dataset, "/status=staged/delivery-date=",
      strftime_now(clk), "/">>

\* upload_file_to_s3, its first line: the destination key.
file_full_s3_path(s3p, path_relative_to_parent) ==
    s3p \o lstrip(lstrip(as_posix(path_relative_to_parent), "."), "/")

\* The else branch of upload_file_to_s3 on w = [calls, store, log]: the
\* call of the store's upload_file, and the line logged after it or, when
\* it raises (`fails`), by the except clause.
put_file(w, file_path, key, fails) ==
    [calls |-> w.calls (+) SetToBag({[op |-> "upload_file",
                                       Bucket |-> S3_BUCKET_NAME, Key |-> key,
                                       file_path |-> file_path,
                                       sheet_name |-> <<>>]}),
     store |-> IF fails THEN w.store
               ELSE Put(w.store, key, [file_path |-> file_path,
                                       sheet_name |-> <<>>]),
     log |-> IF fails
             THEN Logged(w.log, Line("ERROR", "upload_error", file_path,
                                     <<>>, key))
             ELSE Logged(w.log, Line("INFO", "uploaded", file_path,
                                     <<>>, key))]

\* upload_file_try without the test of dry_run.
upload_file_try_for_real(w, file_path, key, dry_run, fails) ==
    put_file(w, file_path, key, fails)

\* upload_file_to_s3, its try block.
upload_file_try(w, file_path, key, dry_run, fails) ==
    IF dry_run
    THEN [w EXCEPT !.log = Logged(@, Line("INFO", "would_upload", file_path,
                                          <<>>, key))]
    ELSE put_file(w, file_path, key, fails)

upload_file_to_s3(w, file_path, s3p, dry_run, path_relative_to_parent, fails) ==
    upload_file_try(w, file_path,
                    file_full_s3_path(s3p, path_relative_to_parent),
                    dry_run, fails)

\* safe_sheet_name without the replacement of spaces.
safe_sheet_name_keeping_spaces(sheet_name) ==
    replace(replace(sheet_name, "/", "_"), "\\", "_")

\* sheet_name.replace('/', '_').replace('\\', '_').replace(' ', '_')
safe_sheet_name(sheet_name) ==
    replace(replace(replace(sheet_name, "/", "_"), "\\", "_"), " ", "_")

sheet_full_s3_path(s3p, original_filename, sheet_name) ==
    s3p \o stem(<<original_filename>>) \o <<"_">>
        \o safe_sheet_name(sheet_name) \o <<".csv">>

\* upload_csv_buffer_to_s3, on w = [calls, store, log].  `fails` is whether
\* upload_fileobj raises.
upload_csv_buffer_to_s3(w, file_path, s3p, sheet_name, dry_run, fails) ==
    LET key == sheet_full_s3_path(s3p, name(file_path), sheet_name)
    IN  IF dry_run
        THEN [w EXCEPT !.log = Logged(@, Line("INFO", "would_upload",
                                              file_path, sheet_name, key))]
        ELSE [calls |-> w.calls (+) SetToBag({[op |-> "upload_fileobj",
                                               Bucket |-> S3_BUCKET_NAME,
                                               Key |-> key,
                                               file_path |-> file_path,
                                               sheet_name |-> sheet_name]}),
              store |-> IF fails THEN w.store
                        ELSE Put(w.store, key, [file_path |-> file_path,
                                                sheet_name |-> sheet_name]),
              log |-> IF fails
                      THEN Logged(w.log, Line("ERROR", "upload_error",
                                              file_path, sheet_name, key))
                      ELSE Logged(w.log, Line("INFO", "uploaded", file_path,
                                              sheet_name, key))]

\* The calls made, the bucket and the log, as the uploaders take them.
World == [calls |-> calls, store |-> store, log |-> log]

\* Whether the put raises: never asked in a dry run.
Outcomes(dry_run) == IF dry_run THEN {FALSE} ELSE BOOLEAN

is_excel_file(file_path) ==
    lower(suffix(file_path)) \in { <<".", "x", "l", "s", "x">>,
                                   <<".", "x", "l", "s">> }


(***************************************************************************)
(* process_excel_file                                                      *)
(***************************************************************************)
\* What pd.ExcelFile finds at file_path: a file that is no workbook does
\* not open.
ContentOf(file_path) ==
    IF file_path \in DOMAIN disk.content THEN disk.content[file_path]
    ELSE [opens |-> FALSE, sheets |-> <<>>]

\* The exit status once the main thread stands at `p`: a command that
\* returns ends the process with status 0.
StatusAt(p) == IF p = "done" THEN 0 ELSE exit_code

\* The head of process_excel_file: open the workbook and list its sheets.
ExcelOpen ==
    /\ pc = "process_excel_file"
    /\ LET wb == ContentOf(xl.file_path)
           l1 == Logged(log, Line("INFO", "processing_excel", xl.file_path,
                                  <<>>, <<>>))
       IN  IF ~wb.opens
           THEN /\ log' = Logged(l1, Line("ERROR", "excel_error", xl.file_path,
                                          <<>>, <<>>))
                /\ pc' = xl.ret
                /\ exit_code' = StatusAt(xl.ret)
                /\ xl' = NoXl
           ELSE IF wb.sheets = <<>>
           THEN /\ log' = Logged(l1, Line("WARNING", "no_sheets", xl.file_path,
                                          <<>>, <<>>))
                /\ pc' = xl.ret
                /\ exit_code' = StatusAt(xl.ret)
                /\ xl' = NoXl
           ELSE /\ log' = Logged(l1, Line("INFO", "found_sheets", xl.file_path,
                                          <<>>, <<>>))
                /\ pc' = "sheet_loop"
                /\ exit_code' = exit_code
                /\ xl' = [xl EXCEPT !.sheets = wb.sheets]
    /\ UNCHANGED <<args, disk, clock, s3_client, s3_path, excel_files,
                   regular_files, mapping_i, tasks, worker, returned, calls,
                   store, san>>

\* One turn of the loop over sheet_names: read the sheet, skip it when the
\* read raises or the frame is empty, else upload its CSV.
ProcessSheet ==
    /\ pc = "sheet_loop"
    /\ LET sh == Head(xl.sheets)
           rest == Tail(xl.sheets)
       IN  /\ \E fails \in Outcomes(args.dry_run \/ sh.df # "rows") :
                LET r == upload_csv_buffer_to_s3(World, xl.file_path, s3_path,
                                                 sh.sheet, args.dry_run, fails)
                IN  IF sh.df = "error"
                    THEN /\ log' = Logged(log, Line("ERROR", "sheet_error",
                                              xl.file_path, sh.sheet, <<>>))
                         /\ UNCHANGED <<calls, store>>
                    ELSE IF sh.df = "empty"
                    THEN /\ log' = Logged(log, Line("WARNING", "sheet_empty",
                                              xl.file_path, sh.sheet, <<>>))
                         /\ UNCHANGED <<calls, store>>
                    ELSE /\ log' = r.log
                         /\ calls' = r.calls
                         /\ store' = r.store
           /\ IF rest = <<>>
              THEN /\ pc' = xl.ret
                   /\ exit_code' = StatusAt(xl.ret)
                   /\ xl' = NoXl
              ELSE /\ pc' = pc
                   /\ exit_code' = exit_code
                   /\ xl' = [xl EXCEPT !.sheets = rest]
    /\ UNCHANGED <<args, disk, clock, s3_client, s3_path, excel_files,
                   regular_files, mapping_i, tasks, worker, returned, san>>

(***************************************************************************)
(* upload                                                                  *)
(***************************************************************************)
\* The orders in which path.glob("**/*") may yield the files.
GlobOrders(fs) ==
    { o \in [1..Cardinality(fs) -> fs] :
        \A i, j \in 1..Cardinality(fs) : i # j => o[i] # o[j] }
IsExcel(f) == is_excel_file(f)
IsRegular(f) == ~is_excel_file(f)

\* upload, from the key prefix to the split of the files (a directory) or
\* to the one file's upload (a file).
Upload ==
    /\ pc = "upload"
    /\ s3_path' = build_s3_path(args.dataset, clock)
    /\ IF disk.is_dir
       THEN /\ \E files \in GlobOrders(disk.files) :
                 /\ excel_files' = SelectSeq(files, IsExcel)
                 /\ regular_files' = SelectSeq(files, IsRegular)
            /\ log' = Logged(Logged(log,
                         Line("INFO", "uploading_files", NoPath, <<>>, <<>>)),
                         Line("INFO", "found_files", NoPath, <<>>, <<>>))
            /\ pc' = "excel_loop"
            /\ UNCHANGED <<exit_code, xl, calls, store>>
       ELSE LET path == CHOOSE f \in disk.files : TRUE
            IN  IF is_excel_file(path)
                THEN /\ log' = Logged(log, Line("INFO", "processing_excel_for",
                                                path, <<>>, <<>>))
                     /\ xl' = [file_path |-> path, sheets |-> <<>>,
                               ret |-> "done"]
                     /\ pc' = "process_excel_file"
                     /\ UNCHANGED <<exit_code, excel_files, regular_files,
                                    calls, store>>
                ELSE /\ \E fails \in Outcomes(args.dry_run) :
                          LET w == [World EXCEPT !.log = Logged(@,
                                          Line("INFO", "uploading_file",
                                               path, <<>>, <<>>))]
                              r == upload_file_to_s3(w, path, s3_path',
                                       args.dry_run, <<name(path)>>, fails)
                          IN  /\ log' = r.log
                              /\ calls' = r.calls
                              /\ store' = r.store
                     /\ pc' = "done"
                     /\ exit_code' = 0
                     /\ UNCHANGED <<excel_files, regular_files, xl>>
    /\ UNCHANGED <<args, disk, clock, s3_client, mapping_i, tasks, worker,
                   returned, san>>


\* The loop over excel_files, then the branch on regular_files.
ExcelLoop ==
    /\ pc = "excel_loop"
    /\ IF excel_files # <<>>
       THEN /\ xl' = [file_path |-> Head(excel_files), sheets |-> <<>>,
                      ret |-> "excel_loop"]
            /\ excel_files' = Tail(excel_files)
            /\ pc' = "process_excel_file"
            /\ exit_code' = exit_code
       ELSE /\ pc' = IF regular_files # <<>> THEN "ThreadPool" ELSE "done"
            /\ exit_code' = IF regular_files # <<>> THEN exit_code ELSE 0
            /\ UNCHANGED <<xl, excel_files>>
    /\ UNCHANGED <<args, disk, clock, s3_client, s3_path, regular_files,
                   mapping_i, tasks, worker, returned, calls, store, log, san>>

\* Whether multiprocessing.pool.ThreadPool(processes) raises ValueError.
pool_rejects(processes) == processes < 1

\* mpp.ThreadPool(processes), then the argument tuples handed to starmap.
\* The ValueError of a pool size below 1 is caught nowhere: the process
\* ends with a traceback and status 1.
PoolCreate ==
    /\ pc = "ThreadPool"
    /\ IF pool_rejects(args.processes)
       THEN /\ pc' = "crashed"
            /\ exit_code' = 1
            /\ UNCHANGED <<tasks, worker>>
       ELSE /\ pc' = "starmap"
            /\ exit_code' = exit_code
            /\ tasks' = regular_files
            /\ worker' = [w \in 1..args.processes |-> Idle]
    /\ UNCHANGED <<args, disk, clock, s3_client, s3_path, excel_files,
                   regular_files, xl, mapping_i, returned, calls, store, log,
                   san>>

\* A worker thread takes the next argument tuple and enters
\* upload_file_to_s3: the key is computed.
WorkerTake(w) ==
    /\ pc = "starmap"
    /\ tasks # <<>>
    /\ worker[w].state = "idle"
    /\ worker' = [worker EXCEPT ![w] =
                    [state |-> "running", file_path |-> Head(tasks),
                     Key |-> file_full_s3_path(s3_path, Head(tasks))]]
    /\ tasks' = Tail(tasks)
    /\ UNCHANGED <<args, disk, clock, pc, exit_code, s3_client, s3_path,
                   excel_files, regular_files, xl, mapping_i, returned,
                   calls, store, log, san>>

\* The worker runs the try block of upload_file_to_s3 and the call returns.
WorkerRun(w) ==
    /\ pc = "starmap"
    /\ worker[w].state = "running"
    /\ \E fails \in Outcomes(args.dry_run) :
         LET r == upload_file_try(World, worker[w].file_path, worker[w].Key,
                                  args.dry_run, fails)
         IN  /\ log' = r.log
             /\ calls' = r.calls
             /\ store' = r.store
    /\ returned' = returned \cup {worker[w].file_path}
    /\ worker' = [worker EXCEPT ![w] = Idle]
    /\ UNCHANGED <<args, disk, clock, pc, exit_code, s3_client, s3_path,
                   excel_files, regular_files, xl, mapping_i, tasks, san>>

Range(f) == {f[i] : i \in DOMAIN f}

\* Whether starmap has every result.
starmap_ready == returned = Range(regular_files)

\* starmap returns, the pool is torn down and the command returns.
PoolJoin ==
    /\ pc = "starmap"
    /\ starmap_ready
    /\ pc' = "done"
    /\ exit_code' = 0
    /\ worker' = <<>>
    /\ UNCHANGED <<args, disk, clock, s3_client, s3_path, excel_files,
                   regular_files, xl, mapping_i, tasks, returned, calls,
                   store, log, san>>


(***************************************************************************)
(* upload_dashboard                                                        *)
(***************************************************************************)
DashboardBegin ==
    /\ pc = "upload_dashboard"
    /\ log' = Logged(log, Line("INFO", "starting_dashboard", NoPath, <<>>, <<>>))
    /\ mapping_i' = 1
    /\ pc' = "mapping_loop"
    /\ UNCHANGED <<args, disk, clock, exit_code, s3_client, s3_path,
                   excel_files, regular_files, xl, tasks, worker, returned,
                   calls, store, san>>

\* path_exists answering yes for every path.
path_exists_unchecked(file_path) == TRUE

\* Path.exists()
path_exists(file_path) == file_path \in disk.files

\* The key prefix upload_dashboard builds for one mapping.
mapping_s3_path(mapping, clk) == build_s3_path(mapping.dataset, clk)

\* One turn of the loop over file_mappings, or the end of the command.
MappingLoop ==
    /\ pc = "mapping_loop"
    /\ IF mapping_i > Len(file_mappings)
       THEN /\ log' = Logged(log, Line("INFO", "dashboard_completed", NoPath,
                                       <<>>, <<>>))
            /\ pc' = "done"
            /\ exit_code' = 0
            /\ UNCHANGED <<mapping_i, s3_path, xl, calls, store>>
       ELSE LET mapping == file_mappings[mapping_i]
                file_path == mapping.file_path
                l1 == Logged(log, Line("INFO", "processing_mapping", file_path,
                                       <<>>, <<>>))
            IN  /\ mapping_i' = mapping_i + 1
                /\ exit_code' = exit_code
                /\ IF ~path_exists(file_path)
                   THEN /\ log' = Logged(l1, Line("ERROR", "file_not_found",
                                                  file_path, <<>>, <<>>))
                        /\ pc' = pc
                        /\ UNCHANGED <<s3_path, xl, calls, store>>
                   ELSE /\ s3_path' = mapping_s3_path(mapping, clock)
                        /\ IF is_excel_file(file_path)
                           THEN /\ log' = Logged(l1, Line("INFO",
                                            "processing_excel_for", file_path,
                                            <<>>, <<>>))
                                /\ xl' = [file_path |-> file_path,
                                          sheets |-> <<>>,
                                          ret |-> "mapping_loop"]
                                /\ pc' = "process_excel_file"
                                /\ UNCHANGED <<calls, store>>
                           ELSE /\ \E fails \in Outcomes(args.dry_run) :
                                     LET w == [World EXCEPT !.log = Logged(l1,
                                                 Line("INFO", "uploading_file",
                                                      file_path, <<>>, <<>>))]
                                         r == upload_file_to_s3(w, file_path,
                                                s3_path', args.dry_run,
                                                <<name(file_path)>>, fails)
                                     IN  /\ log' = r.log
                                         /\ calls' = r.calls
                                         /\ store' = r.store
                                /\ pc' = pc
                                /\ xl' = xl
    /\ UNCHANGED <<args, disk, clock, s3_client, excel_files, regular_files,
                   tasks, worker, returned, san>>

(***************************************************************************)
(* The wall clock, and the runs.                                           *)
(***************************************************************************)
Running == pc \notin {"done", "exited", "crashed", "off"}

\* Midnight passes while the command runs.
Midnight ==
    /\ Running
    /\ clock < MaxMidnights
    /\ clock' = clock + 1
    /\ UNCHANGED <<args, disk, pc, exit_code, s3_client, s3_path, excel_files,
                   regular_files, xl, mapping_i, tasks, worker, returned,
                   calls, store, log, san>>

ProcessesValues == 0..MaxProcesses

CommandLines ==
    [command : {"upload"}, dataset : Dataset, processes : ProcessesValues,
     dry_run : BOOLEAN]
    \cup [command : {"upload_dashboard"}, dataset : {""},
          processes : ProcessesValues, dry_run : BOOLEAN]

DisksOf(command) ==
    LET paths == IF command = "upload" THEN Directories \cup SingleFiles
                 ELSE DashboardDisks
    IN  { [config |-> c, is_dir |-> d.is_dir, files |-> d.files,
           content |-> d.content] : c \in ConfigFiles, d \in paths }

\* The process as the command's function is entered: cli() has configured
\* logging and click has checked the arguments.
Init ==
    /\ args \in CommandLines
    /\ disk \in DisksOf(args.command)
    /\ clock = 0
    /\ pc = "get_s3_client"
    /\ exit_code = -1
    /\ s3_client = FALSE
    /\ s3_path = <<>>
    /\ excel_files = <<>>
    /\ regular_files = <<>>
    /\ xl = NoXl
    /\ mapping_i = 0
    /\ tasks = <<>>
    /\ worker = <<>>
    /\ returned = {}
    /\ calls = EmptyBag
    /\ store = {}
    /\ log = EmptyBag
    /\ san = SanOff

Next ==
    \/ GetS3Client
    \/ Upload
    \/ ExcelLoop
    \/ ExcelOpen
    \/ ProcessSheet
    \/ PoolCreate
    \/ \E w \in DOMAIN worker : WorkerTake(w)
    \/ \E w \in DOMAIN worker : WorkerRun(w)
    \/ PoolJoin
    \/ DashboardBegin
    \/ MappingLoop
    \/ Midnight

Spec == Init /\ [][Next]_vars


\* The threads of the process are scheduled fairly: a step of the program
\* that stays possible is taken.  Nothing makes midnight pass.
Program ==
    \/ GetS3Client
    \/ Upload
    \/ ExcelLoop
    \/ ExcelOpen
    \/ ProcessSheet
    \/ PoolCreate
    \/ \E w \in DOMAIN worker : WorkerTake(w)
    \/ \E w \in DOMAIN worker : WorkerRun(w)
    \/ PoolJoin
    \/ DashboardBegin
    \/ MappingLoop

FairSpec == Spec /\ WF_vars(Program)

(***************************************************************************)
(* The sheet-name sanitiser on its own: a sheet name is drawn, and the     *)
(* sanitiser is applied to it and then to its own result.                  *)
(***************************************************************************)
SheetChars == {"/", "\\", " ", "_", "a"}
SanitizerInputs == UNION { [1..n -> SheetChars] : n \in 0..MaxNameLen }

SanInit ==
    /\ args = [command |-> "none", dataset |-> "", processes |-> 0,
               dry_run |-> TRUE]
    /\ disk = [config |-> GoodIni, is_dir |-> FALSE, files |-> {},
               content |-> <<>>]
    /\ clock = 0
    /\ pc = "off"
    /\ exit_code = -1
    /\ s3_client = FALSE
    /\ s3_path = <<>>
    /\ excel_files = <<>>
    /\ regular_files = <<>>
    /\ xl = NoXl
    /\ mapping_i = 0
    /\ tasks = <<>>
    /\ worker = <<>>
    /\ returned = {}
    /\ calls = EmptyBag
    /\ store = {}
    /\ log = EmptyBag
    /\ san \in { [stage |-> "input", sheet_name |-> n, once |-> <<>>,
                  twice |-> <<>>] : n \in SanitizerInputs }

SanitizeOnce ==
    /\ san.stage = "input"
    /\ san' = [san EXCEPT !.stage = "once",
                          !.once = safe_sheet_name(san.sheet_name)]
    /\ UNCHANGED <<args, disk, clock, pc, exit_code, s3_client, s3_path,
                   excel_files, regular_files, xl, mapping_i, tasks, worker,
                   returned, calls, store, log>>

SanitizeAgain ==
    /\ san.stage = "once"
    /\ san' = [san EXCEPT !.stage = "twice",
                          !.twice = safe_sheet_name(san.once)]
    /\ UNCHANGED <<args, disk, clock, pc, exit_code, s3_client, s3_path,
                   excel_files, regular_files, xl, mapping_i, tasks, worker,
                   returned, calls, store, log>>

SanNext == SanitizeOnce \/ SanitizeAgain

SanSpec == SanInit /\ [][SanNext]_vars


(***************************************************************************)
(* Properties.                                                             *)
(***************************************************************************)
Calls == BagToSet(calls)
Lines == BagToSet(log)
Ended == pc \in {"done", "exited", "crashed"}
\* How many calls of `op` were made for file_path and sheet_name.
CallCount(op, file_path, sheet_name) ==
    LET S == {c \in Calls : /\ c.op = op
                            /\ c.file_path = file_path
                            /\ c.sheet_name = sheet_name}
    IN  BagCardinality([c \in S |-> calls[c]])
\* How many lines of `event` were logged about file_path and sheet_name.
LineCount(event, file_path, sheet_name) ==
    LET S == {l \in Lines : /\ l.event = event
                            /\ l.file_path = file_path
                            /\ l.sheet_name = sheet_name}
    IN  BagCardinality([l \in S |-> log[l]])
\* The sheets of the workbook at file_path that hold rows.
RowSheets(file_path) ==
    LET wb == ContentOf(file_path)
    IN  {wb.sheets[i].sheet : i \in {j \in DOMAIN wb.sheets :
                                        wb.sheets[j].df = "rows"}}
AllSheets(file_path) ==
    LET wb == ContentOf(file_path)
    IN  {wb.sheets[i].sheet : i \in DOMAIN wb.sheets}

\* C1: in a run with the dry-run flag set, of either command, no put
\* operation of the store is ever invoked (upload_file, upload_fileobj) and
\* the bucket stays as it was.
C1_DryRunNeverCallsStore ==
    args.dry_run => calls = EmptyBag /\ store = {}

\* A dry run of a directory has ended after a plain file and a sheet with
\* rows each got their "would upload" line.
C1_Witness ==
    /\ args.dry_run
    /\ args.command = "upload"
    /\ disk.is_dir
    /\ pc = "done"
    /\ \E l \in Lines : l.event = "would_upload" /\ l.sheet_name = <<>>
    /\ \E l \in Lines : l.event = "would_upload" /\ l.sheet_name # <<>>

\* S3.ini is missing, or lacks [AWS], or lacks a key, or holds an empty
\* value for a key.
BadIni(ini) ==
    \/ ~ini.exists
    \/ ~ini.has_aws
    \/ KEY_ID \notin DOMAIN ini.opts
    \/ SECRET \notin DOMAIN ini.opts
    \/ ini.opts[KEY_ID] = ""
    \/ ini.opts[SECRET] = ""

\* C6: with S3.ini missing, without its AWS section, without either key or
\* with an empty value for either key, the process goes from get_s3_client
\* straight to exit status 1: no client is constructed, no file is
\* enumerated, no dry-run line is logged and no put call is made.
C6_BadConfigExitsBeforeClient ==
    (pc # "off" /\ BadIni(disk.config)) =>
        /\ pc \in {"get_s3_client", "exited"}
        /\ pc = "exited" <=> exit_code = 1
        /\ pc = "get_s3_client" <=> exit_code = -1
        /\ ~s3_client
        /\ excel_files = <<>> /\ regular_files = <<>> /\ xl = NoXl
        /\ mapping_i = 0
        /\ calls = EmptyBag /\ store = {}
        /\ \A l \in Lines : l.event # "would_upload"

\* The process has exited with status 1 on an S3.ini whose secret is empty.
C6_Witness ==
    /\ disk.config.exists /\ disk.config.has_aws
    /\ SECRET \in DOMAIN disk.config.opts
    /\ disk.config.opts[SECRET] = ""
    /\ disk.files # {}
    /\ pc = "exited"
    /\ exit_code = 1

\* What the loop of upload_dashboard owes mapping i once it has passed it,
\* whatever the other mapping is: a missing file gets its error line and
\* nothing else; a file that exists is expanded sheet by sheet from what
\* that file holds.
MappingSettled(i) ==
    LET file_path == file_mappings[i].file_path
        dataset == file_mappings[i].dataset
    IN  IF file_path \notin disk.files
        THEN /\ LineCount("file_not_found", file_path, <<>>) = 1
             /\ \A l \in Lines : l.file_path = file_path =>
                    l.event \in {"processing_mapping", "file_not_found"}
             /\ \A c \in Calls : c.file_path # file_path
             /\ \A o \in store : o.body.file_path # file_path
        ELSE /\ LineCount("file_not_found", file_path, <<>>) = 0
             /\ LineCount("processing_excel", file_path, <<>>) = 1
             /\ \A c \in Calls : c.file_path = file_path =>
                    c.op = "upload_fileobj" /\ c.Key[2] = dataset
             /\ \A sh \in AllSheets(file_path) :
                    /\ CallCount("upload_fileobj", file_path, sh) =
                         IF sh \in RowSheets(file_path) /\ ~args.dry_run
                         THEN 1 ELSE 0
                    /\ LineCount("would_upload", file_path, sh) =
                         IF sh \in RowSheets(file_path) /\ args.dry_run
                         THEN 1 ELSE 0

\* C7: in upload-dashboard each of the two mappings is handled on its own:
\* a mapping whose file does not exist gets an error line and no upload
\* attempt, and the other mapping is processed from its own file alone.
C7_MissingMappingSkipped ==
    args.command = "upload_dashboard" =>
        /\ \A i \in 1..Len(file_mappings) :
             (mapping_i > i /\ pc \in {"mapping_loop", "done"})
                 => MappingSettled(i)
        /\ \A i \in 1..Len(file_mappings) :
             file_mappings[i].file_path \notin disk.files =>
                 \A c \in Calls : c.file_path # file_mappings[i].file_path
        /\ pc = "done" => mapping_i = Len(file_mappings) + 1

\* upload-dashboard has ended with the first file missing and a sheet of
\* the second file put in the bucket.
C7_Witness ==
    /\ args.command = "upload_dashboard"
    /\ pc = "done"
    /\ file_mappings[1].file_path \notin disk.files
    /\ file_mappings[2].file_path \in disk.files
    /\ LineCount("file_not_found", file_mappings[1].file_path, <<>>) = 1
    /\ \E c \in Calls : c.file_path = file_mappings[2].file_path
    /\ \E o \in store : o.body.file_path = file_mappings[2].file_path

Replaced == {"/", "\\", " "}

\* C8: the sanitiser turns "/", "\" and " " into "_" and leaves every other
\* character alone; its result holds none of the three, and sanitising the
\* result again changes nothing.
C8_SanitizeIdempotent ==
    /\ san.stage \in {"once", "twice"} =>
         /\ Len(san.once) = Len(san.sheet_name)
         /\ \A i \in 1..Len(san.once) :
              /\ san.once[i] \notin Replaced
              /\ san.once[i] = IF san.sheet_name[i] \in Replaced THEN "_"
                               ELSE san.sheet_name[i]
    /\ san.stage = "twice" => san.twice = san.once

\* A name holding all three replaced characters has been sanitised twice.
C8_Witness ==
    /\ san.stage = "twice"
    /\ san.sheet_name = <<"/", "\\", " ">>
    /\ san.twice = <<"_", "_", "_">>


\* A real upload of a directory: the run the counts of C2 are about.
DirUpload == args.command = "upload" /\ disk.is_dir
\* The plain files and the spreadsheet files the directory holds.
PlainFiles == disk.files \ WorkbookPaths
SpreadsheetFiles == disk.files \cap WorkbookPaths

\* C2: when a non-dry-run upload of a directory has ended, every plain file
\* has had exactly one upload_file call, every sheet with rows of every
\* spreadsheet exactly one upload_fileobj call, an empty sheet none, and no
\* spreadsheet file has been put as it is.
C2_OneCallPerFileAndSheet ==
    (DirUpload /\ s3_client /\ ~args.dry_run /\ Ended) =>
        /\ \A f \in PlainFiles : CallCount("upload_file", f, <<>>) = 1
        /\ \A f \in SpreadsheetFiles :
             /\ CallCount("upload_file", f, <<>>) = 0
             /\ \A sh \in AllSheets(f) :
                  CallCount("upload_fileobj", f, sh) =
                      IF sh \in RowSheets(f) THEN 1 ELSE 0
        /\ BagCardinality(calls) =
             Cardinality(PlainFiles)
             + Cardinality({<<f, sh>> \in SpreadsheetFiles \X Range(SheetOrder) :
                              sh \in RowSheets(f)})

\* Every key a plain file of a directory was given: in a put call, in a
\* line of the log, or held by a worker.
FileKeys ==
    {[file_path |-> c.file_path, Key |-> c.Key] :
        c \in {d \in Calls : d.op = "upload_file"}}
    \cup {[file_path |-> l.file_path, Key |-> l.Key] :
            l \in {m \in Lines : /\ m.sheet_name = <<>>
                                 /\ m.event \in {"would_upload", "uploaded",
                                                 "upload_error"}}}
    \cup {[file_path |-> worker[w].file_path, Key |-> worker[w].Key] :
            w \in {v \in DOMAIN worker : worker[v].state = "running"}}

\* C3: the key of a plain file uploaded from a directory is the key prefix
\* of the run followed by exactly the file's path relative to the directory,
\* with "/" between its parts, leading dots included.
C3_KeyIsPrefixThenRelativePath ==
    DirUpload =>
        \A k \in FileKeys : k.Key = s3_path \o as_posix(k.file_path)

\* Every key produced so far, in a put call or in a line of the log.
KeysProduced ==
    {c.Key : c \in Calls} \cup {l.Key : l \in {m \in Lines : m.Key # <<>>}}
\* The delivery-date of a key: the fourth piece of the prefix.
DeliveryDate(key) == key[4]

\* C4: all keys produced in one run of either command carry the same
\* delivery-date, also when midnight passes during the run.
C4_OneDeliveryDatePerRun ==
    \A k1, k2 \in KeysProduced : DeliveryDate(k1) = DeliveryDate(k2)

\* C5: once the client has been built, a run of `upload` never ends with an
\* uncaught exception and ends with exit status 0, whatever uploads failed
\* and whatever --processes is.
C5_UploadExitsZero ==
    (args.command = "upload" /\ s3_client) =>
        /\ pc # "crashed"
        /\ Ended => exit_code = 0

\* C9: in a directory upload the command is not done before every task
\* handed to the pool has returned, and it does get done.
C9_PoolJoinsThenCompletes ==
    /\ [](DirUpload /\ pc = "done" => returned = Range(regular_files))
    /\ [](DirUpload /\ s3_client => <>(pc = "done"))

\* C10: two distinct plain files of one directory upload never get the same
\* key, and so every file put with success is what the bucket holds under
\* its key when the run is done.
C10_DistinctKeys ==
    DirUpload =>
        /\ \A k1, k2 \in FileKeys :
             k1.file_path # k2.file_path => k1.Key # k2.Key
        /\ pc = "done" =>
             \A l \in Lines :
                 (l.event = "uploaded" /\ l.sheet_name = <<>>) =>
                     [Key |-> l.Key,
                      body |-> [file_path |-> l.file_path,
                                sheet_name |-> <<>>]] \in store

=============================================================================
